---- MODULE Spec2Model ----
(***************************************************************************)
(* wapiti/operations/template_parser.py: the Mediawiki template lexer,     *)
(* the pushback TokenStream, the recursive-descent parser (match_template, *)
(* match_atom, match_parameters, match_end) and                            *)
(* TemplateReference.from_string, as a state machine with an explicit call *)
(* stack.  Python 2 semantics (TokenStream defines next(), not __next__).  *)
(*                                                                         *)
(* A Python str is a sequence of one-character strings.                    *)
(***************************************************************************)
EXTENDS Integers, Sequences, FiniteSets, TLC

VARIABLES text, tokens, pos, pushed, stack, ret, status, ref

vars == <<text, tokens, pos, pushed, stack, ret, status, ref>>

(***************************************************************************)
(* Bounds of the input space.                                              *)
(***************************************************************************)
\* longest raw text drawn from the whole alphabet
MaxText == 3
\* most lexemes that follow an opening {{ in a free-form input
MaxLen == 4
\* most parameter segments of a generated template
MaxParams == 2

\* most lexemes after the END that closes a template (repeated parse)
MaxTail == 2

(***************************************************************************)
(* Python values.                                                          *)
(***************************************************************************)
None == [k |-> "None"]

IntV(n) == [k |-> "int", n |-> n]

StrV(s) == [k |-> "str", s |-> s]

\* a dict: d is a function from its keys (strings) to values; {} is Dict(<<>>)
Dict(d) == [k |-> "dict", d |-> d]

EmptyDict == Dict(<<>>)

HasKey(v, key) == v.k = "dict" /\ key \in DOMAIN v.d

IsAtomValue(v) == v.k \in {"int", "str"}

Token(name, value) == [name |-> name, value |-> value]

\* Token(None, None), the default of advance()
EndOfStream == Token("None", None)

Arg(value) == [k |-> "Arg", value |-> value]

Kwarg(key, value) == [k |-> "Kwarg", key |-> key, value |-> value]

(***************************************************************************)
(* atomize: strip, then the first of int, float, str that accepts the      *)
(* text.  Over the alphabet below int() accepts exactly the non-empty      *)
(* digit runs and float() accepts nothing that int() rejects.              *)
(***************************************************************************)
Whitespace == {" "}

Digits == {"1"}

RECURSIVE LStrip(_)
LStrip(s) ==
  IF s # <<>> /\ Head(s) \in Whitespace THEN LStrip(Tail(s)) ELSE s

RECURSIVE RStrip(_)
RStrip(s) ==
  IF s # <<>> /\ s[Len(s)] \in Whitespace
  THEN RStrip(SubSeq(s, 1, Len(s) - 1)) ELSE s

Strip(s) == LStrip(RStrip(s))

DigitValue(c) == IF c = "1" THEN 1 ELSE 0

IntAccepts(s) == s # <<>> /\ \A i \in 1..Len(s) : s[i] \in Digits

RECURSIVE IntOf(_)
IntOf(s) ==
  IF s = <<>> THEN 0
  ELSE 10 * IntOf(SubSeq(s, 1, Len(s) - 1)) + DigitValue(s[Len(s)])

atomize(t) ==
  LET token == Strip(t)
  IN  IF IntAccepts(token) THEN IntV(IntOf(token)) ELSE StrV(token)

(***************************************************************************)
(* lex = re.Scanner([...]): at each position the first pattern that        *)
(* matches wins; when none matches the scan stops and the rest of the      *)
(* string is returned as the second component of scan().                   *)
(***************************************************************************)
Delimiters == {"|", "{", "}", "="}

StartsWith(s, i, lit) ==
  /\ i + Len(lit) - 1 <= Len(s)
  /\ SubSeq(s, i, i + Len(lit) - 1) = lit

\* end (exclusive) of the longest run of [^|{}=] starting at i
RECURSIVE AtomEnd(_, _)
AtomEnd(s, i) ==
  IF i <= Len(s) /\ s[i] \notin Delimiters THEN AtomEnd(s, i + 1) ELSE i

\* the match at position i: [len, token], len = 0 when no pattern matches
MatchAt(s, i) ==
  IF StartsWith(s, i, <<"{", "{">>)
    THEN [len |-> 2, token |-> Token("BEGIN", StrV(<<"{", "{">>))]
  ELSE IF StartsWith(s, i, <<"}", "}">>)
    THEN [len |-> 2, token |-> Token("END", StrV(<<"}", "}">>))]
  ELSE IF AtomEnd(s, i) > i
    THEN [len |-> AtomEnd(s, i) - i,
          token |-> Token("ATOM", atomize(SubSeq(s, i, AtomEnd(s, i) - 1)))]
  ELSE IF StartsWith(s, i, <<"=">>)
    THEN [len |-> 1, token |-> Token("EQUAL", StrV(<<"=">>))]
  ELSE IF StartsWith(s, i, <<"|">>)
    THEN [len |-> 1, token |-> Token("PARAMETER", StrV(<<"|">>))]
  ELSE [len |-> 0, token |-> EndOfStream]

\* Scanner.scan from position i with the results so far: [tokens, spans, rest]
RECURSIVE ScanFrom(_, _, _, _)
ScanFrom(s, i, acc, spans) ==
  LET m == MatchAt(s, i)
  IN  IF i > Len(s) \/ m.len = 0
      THEN [tokens |-> acc, spans |-> spans, rest |-> SubSeq(s, i, Len(s))]
      ELSE ScanFrom(s, i + m.len, Append(acc, m.token),
                    Append(spans, SubSeq(s, i, i + m.len - 1)))

scan(s) == ScanFrom(s, 1, <<>>, <<>>)

\* lex.scan(s)[0], what parse() hands to TokenStream
LexTokens(s) == scan(s).tokens

(***************************************************************************)
(* The texts given to from_string: every raw text of at most MaxText       *)
(* characters, every text that opens a template and goes on with at most   *)
(* MaxLen lexemes in any order, and the templates named a with at most     *)
(* MaxParams parameter segments.                                           *)
(***************************************************************************)
Alphabet == {"{", "}", "|", "=", "a", "1", " "}

RawTexts == UNION {[1..n -> Alphabet] : n \in 0..MaxText}

LB == <<"{", "{">>

RB == <<"}", "}">>

Lexemes == {LB, RB, <<"|">>, <<"=">>, <<"a">>, <<"1">>}

RECURSIVE Runs(_, _)
Runs(pieces, n) ==
  IF n = 0 THEN {<<>>}
  ELSE Runs(pieces, n - 1) \cup {r \o p : r \in Runs(pieces, n - 1), p \in pieces}

FreeForm == {LB \o r : r \in Runs(Lexemes, MaxLen)}

AtomTexts == {<<"a">>, <<"1">>}

NestedTexts == {LB \o <<"a">> \o RB, LB \o <<"a", "|", "1">> \o RB}

ValueTexts == AtomTexts \cup NestedTexts

Segments ==
  {<<"|">>}
    \cup {<<"|">> \o v : v \in ValueTexts}
    \cup {<<"|">> \o key \o <<"=">> \o v : key \in AtomTexts, v \in ValueTexts}
    \cup {<<"|">> \o LB \o <<"a">> \o RB \o <<"=", "1">>}
    \cup {<<"|", "a", "=", "1", "=", "a">>, <<"|", "a", "=">>, <<"|", "=", "1">>,
          <<"|", "a">> \o LB \o <<"a">> \o RB}

Templates == {LB \o <<"a">> \o r \o RB : r \in Runs(Segments, MaxParams)}

Inputs == RawTexts \cup FreeForm \cup Templates

Count(seq, name) == Cardinality({i \in 1..Len(seq) : seq[i].name = name})

\* the index of the END matching the first BEGIN of toks, if there is one
Closings(toks) ==
  {j \in 1..Len(toks) :
     /\ toks[1].name = "BEGIN"
     /\ toks[j].name = "END"
     /\ Count(SubSeq(toks, 1, j), "BEGIN") = Count(SubSeq(toks, 1, j), "END")
     /\ \A k \in 1..(j - 1) :
          Count(SubSeq(toks, 1, k), "BEGIN") > Count(SubSeq(toks, 1, k), "END")}

\* the texts given to the repeated parse: a template of at most one segment
\* followed by at most MaxTail lexemes, and the free-form texts, as far as
\* their first BEGIN is closed
TrailingInputs ==
  {t \in {LB \o <<"a">> \o r \o RB \o tail :
            r \in Runs(Segments, 1), tail \in Runs(Lexemes, MaxTail)}
         \cup FreeForm :
     Closings(LexTokens(t)) # {}}

(***************************************************************************)
(* TokenStream and advance.                                                *)
(***************************************************************************)
\* TokenStream.next that hands out the pushed token and keeps it pending
TokenStreamNextSticky(p, i) ==
  IF p # None
    THEN [token |-> p, pushed |-> p, pos |-> i, stop |-> FALSE]
  ELSE IF i < Len(tokens)
    THEN [token |-> tokens[i + 1], pushed |-> None, pos |-> i + 1, stop |-> FALSE]
  ELSE [token |-> None, pushed |-> None, pos |-> i, stop |-> TRUE]

\* TokenStream.next with the iterator at pos: the pushed token if any, else
\* the iterator's next token; stop is StopIteration
TokenStreamNext(p, i) ==
  IF p # None
    THEN [token |-> p, pushed |-> None, pos |-> i, stop |-> FALSE]
  ELSE IF i < Len(tokens)
    THEN [token |-> tokens[i + 1], pushed |-> None, pos |-> i + 1, stop |-> FALSE]
  ELSE [token |-> None, pushed |-> None, pos |-> i, stop |-> TRUE]

(***************************************************************************)
(* The call stack.  A frame holds the locals of one activation; pc is the  *)
(* place the activation resumes at.  Every function starts with a call of  *)
(* advance, so a new frame starts at pc "advance".                         *)
(***************************************************************************)
Unbound == [k |-> "unbound"]

Cycle(n) == [k |-> "cycle", next |-> n]

Frame(fn) ==
  [fn |-> fn, pc |-> "advance", token |-> Unbound, template |-> EmptyDict,
   pairs |-> <<>>, idx_cycle |-> Unbound, idx |-> 0]

Top == stack[Len(stack)]

Running == status = "running" /\ stack # <<>>

At(fn, pc) == Running /\ Top.fn = fn /\ Top.pc = pc

SetTop(f) == [stack EXCEPT ![Len(stack)] = f]

Pop == SubSeq(stack, 1, Len(stack) - 1)

\* call fn from the top frame, which resumes at pc
Call(fn, pc) ==
  stack' = Append(SetTop([Top EXCEPT !.pc = pc]), Frame(fn))

\* return v from the top frame; the outermost return ends parse()
Return(v) ==
  /\ stack' = Pop
  /\ ret' = v
  /\ status' = IF Len(stack) = 1 THEN "parsed" ELSE status

Raise(exception) ==
  /\ status' = exception
  /\ UNCHANGED <<stack, ret>>

Init ==
  /\ text \in Inputs
  /\ tokens = <<>>
  /\ pos = 0
  /\ pushed = None
  /\ stack = <<>>
  /\ ret = None
  /\ status = "start"
  /\ ref = None

\* from_string line 23 and parse: lex, wrap in a TokenStream, call match_template
Parse ==
  /\ status = "start"
  /\ tokens' = LexTokens(text)
  /\ pos' = 0
  /\ pushed' = None
  /\ stack' = <<Frame("match_template")>>
  /\ status' = "running"
  /\ UNCHANGED <<text, ret, ref>>

\* advance(tokens): next(tokens, Token(None, None)), into the caller's token
Advance ==
  /\ Running
  /\ Top.pc = "advance"
  /\ LET r == TokenStreamNext(pushed, pos)
     IN  /\ pushed' = r.pushed
         /\ pos' = r.pos
         /\ stack' = SetTop([Top EXCEPT
                               !.token = IF r.stop THEN EndOfStream ELSE r.token,
                               !.pc = "got"])
  /\ UNCHANGED <<text, tokens, ret, status, ref>>

(***************************************************************************)
(* match_template                                                          *)
(***************************************************************************)
\* lines 88-90: no BEGIN here; push the token back and return {}
MatchTemplateNotBegin ==
  /\ At("match_template", "got")
  /\ Top.token.name # "BEGIN"
  /\ pushed' = Top.token
  /\ Return(EmptyDict)
  /\ UNCHANGED <<text, tokens, pos, ref>>

\* lines 88, 92: a BEGIN; name = match_atom(tokens)
MatchTemplateBegin ==
  /\ At("match_template", "got")
  /\ Top.token.name = "BEGIN"
  /\ Call("match_atom", "name")
  /\ UNCHANGED <<text, tokens, pos, pushed, ret, status, ref>>

\* lines 93-94: match_atom gave None; name = match_template(tokens)
MatchTemplateNestedName ==
  /\ At("match_template", "name")
  /\ ret = None
  /\ Call("match_template", "nested_name")
  /\ UNCHANGED <<text, tokens, pos, pushed, ret, status, ref>>

\* lines 96, 98: template['name'] = name; match_parameters(template, tokens)
MatchTemplateParameters ==
  /\ \/ At("match_template", "name") /\ ret # None
     \/ At("match_template", "nested_name")
  /\ stack' = Append(SetTop([Top EXCEPT !.template = Dict([name |-> ret]),
                                        !.pc = "end"]),
                     Frame("match_parameters"))
  /\ UNCHANGED <<text, tokens, pos, pushed, ret, status, ref>>

\* line 99: match_end(tokens)
MatchTemplateEnd ==
  /\ At("match_template", "end")
  /\ Call("match_end", "return")
  /\ UNCHANGED <<text, tokens, pos, pushed, ret, status, ref>>

\* a return that accepts the outermost template only at the end of the tokens
MatchTemplateReturnWhole ==
  /\ At("match_template", "return")
  /\ IF Len(stack) = 1 /\ pos < Len(tokens)
       THEN Raise("AssertionError")
       ELSE Return(Top.template)
  /\ UNCHANGED <<text, tokens, pos, pushed, ref>>

\* line 101: return template
MatchTemplateReturn ==
  /\ At("match_template", "return")
  /\ Return(Top.template)
  /\ UNCHANGED <<text, tokens, pos, pushed, ref>>

(***************************************************************************)
(* match_atom                                                              *)
(***************************************************************************)
\* lines 106-109
MatchAtom ==
  /\ At("match_atom", "got")
  /\ IF Top.token.name # "ATOM"
       THEN pushed' = Top.token /\ Return(None)
       ELSE pushed' = pushed /\ Return(Top.token.value)
  /\ UNCHANGED <<text, tokens, pos, ref>>

(***************************************************************************)
(* match_parameters                                                        *)
(***************************************************************************)
\* manage_pairs that puts a new pair in front: pairs.insert(0, pair)
manage_pairs_prepend(pairs, idx, value) ==
  IF value = None THEN pairs
  ELSE IF idx = 0 THEN <<<<value, None>>>> \o pairs
  ELSE [pairs EXCEPT ![1][idx + 1] = value]

\* manage_pairs that starts a pair for every value, whatever idx is
manage_pairs_always_new(pairs, idx, value) ==
  IF value = None THEN pairs ELSE Append(pairs, <<value, None>>)

\* manage_pairs after send((idx, value)): the list pairs; the generator's
\* local pair is the pair appended last
manage_pairs(pairs, idx, value) ==
  IF value = None THEN pairs
  ELSE IF idx = 0 THEN Append(pairs, <<value, None>>)
  ELSE [pairs EXCEPT ![Len(pairs)][idx + 1] = value]

\* pair[idx] = value with no pair bound yet
PairUnbound(pairs, idx, value) == value # None /\ idx # 0 /\ pairs = <<>>

\* next(idx_cycle) on itertools.cycle([0, 1])
CycleNext(c) == Cycle(1 - c.next)

\* lines 132-134: a PARAMETER; a fresh cycle, send((0, None))
MatchParametersParameter ==
  /\ At("match_parameters", "got")
  /\ Top.token.name = "PARAMETER"
  /\ stack' = SetTop([Top EXCEPT !.idx_cycle = Cycle(0),
                                 !.pairs = manage_pairs(@, 0, None),
                                 !.pc = "advance"])
  /\ UNCHANGED <<text, tokens, pos, pushed, ret, status, ref>>

\* lines 135-136: an ATOM; send((next(idx_cycle), token.value))
MatchParametersAtom ==
  /\ At("match_parameters", "got")
  /\ Top.token.name = "ATOM"
  /\ IF Top.idx_cycle = Unbound
         \/ PairUnbound(Top.pairs, Top.idx_cycle.next, Top.token.value)
       THEN Raise("UnboundLocalError")
       ELSE /\ stack' = SetTop([Top EXCEPT
                                  !.idx_cycle = CycleNext(@),
                                  !.pairs = manage_pairs(@, Top.idx_cycle.next,
                                                         Top.token.value),
                                  !.pc = "advance"])
            /\ UNCHANGED <<ret, status>>
  /\ UNCHANGED <<text, tokens, pos, pushed, ref>>

\* the BEGIN branch without tokens.push(token): the nested match_template
\* starts after the BEGIN
MatchParametersBeginConsumed ==
  /\ At("match_parameters", "got")
  /\ Top.token.name = "BEGIN"
  /\ pushed' = pushed
  /\ IF Top.idx_cycle = Unbound
       THEN Raise("UnboundLocalError")
       ELSE /\ stack' = Append(SetTop([Top EXCEPT !.idx = Top.idx_cycle.next,
                                                  !.idx_cycle = CycleNext(@),
                                                  !.pc = "value"]),
                               Frame("match_template"))
            /\ UNCHANGED <<ret, status>>
  /\ UNCHANGED <<text, tokens, pos, ref>>

\* lines 137-139, up to the call: push the BEGIN back, take next(idx_cycle),
\* call match_template
MatchParametersBegin ==
  /\ At("match_parameters", "got")
  /\ Top.token.name = "BEGIN"
  /\ pushed' = Top.token
  /\ IF Top.idx_cycle = Unbound
       THEN Raise("UnboundLocalError")
       ELSE /\ stack' = Append(SetTop([Top EXCEPT !.idx = Top.idx_cycle.next,
                                                  !.idx_cycle = CycleNext(@),
                                                  !.pc = "value"]),
                               Frame("match_template"))
            /\ UNCHANGED <<ret, status>>
  /\ UNCHANGED <<text, tokens, pos, ref>>

\* line 139, after the call: send((idx, the nested template))
MatchParametersValue ==
  /\ At("match_parameters", "value")
  /\ IF PairUnbound(Top.pairs, Top.idx, ret)
       THEN Raise("UnboundLocalError")
       ELSE /\ stack' = SetTop([Top EXCEPT
                                  !.pairs = manage_pairs(@, Top.idx, ret),
                                  !.pc = "advance"])
            /\ UNCHANGED <<ret, status>>
  /\ UNCHANGED <<text, tokens, pos, pushed, ref>>

\* an EQUAL that moves the cursor on: next(idx_cycle), then continue
MatchParametersEqualAdvancing ==
  /\ At("match_parameters", "got")
  /\ Top.token.name = "EQUAL"
  /\ stack' = SetTop([Top EXCEPT
                        !.idx_cycle = IF @ = Unbound THEN @ ELSE CycleNext(@),
                        !.pc = "advance"])
  /\ UNCHANGED <<text, tokens, pos, pushed, ret, status, ref>>

\* an EQUAL that is pushed back before the loop goes on
MatchParametersEqualPushed ==
  /\ At("match_parameters", "got")
  /\ Top.token.name = "EQUAL"
  /\ pushed' = Top.token
  /\ stack' = SetTop([Top EXCEPT !.pc = "advance"])
  /\ UNCHANGED <<text, tokens, pos, ret, status, ref>>

\* lines 140-141: an EQUAL; continue
MatchParametersEqual ==
  /\ At("match_parameters", "got")
  /\ Top.token.name = "EQUAL"
  /\ stack' = SetTop([Top EXCEPT !.pc = "advance"])
  /\ UNCHANGED <<text, tokens, pos, pushed, ret, status, ref>>

\* lines 146-147: the list stored in template['parameters']
Parameters(pairs) ==
  [i \in 1..Len(pairs) |->
     IF pairs[i][2] = None THEN Arg(pairs[i][1])
     ELSE Kwarg(pairs[i][1], pairs[i][2])]

\* template['parameters'] = value, on the dict the caller passed
SetParameters(template, value) ==
  Dict([key \in DOMAIN template.d \cup {"parameters"} |->
          IF key = "parameters" THEN value ELSE template.d[key]])

\* lines 142-147: any other token; break, push it back, store the
\* parameters in the caller's template and return
MatchParametersBreak ==
  /\ At("match_parameters", "got")
  /\ Top.token.name \notin {"PARAMETER", "ATOM", "BEGIN", "EQUAL"}
  /\ pushed' = Top.token
  /\ LET caller == stack[Len(stack) - 1]
     IN  stack' = [Pop EXCEPT ![Len(stack) - 1] =
                     [caller EXCEPT !.template =
                        SetParameters(caller.template, Parameters(Top.pairs))]]
  /\ ret' = None
  /\ UNCHANGED <<text, tokens, pos, status, ref>>

(***************************************************************************)
(* match_end                                                               *)
(***************************************************************************)
\* match_end without its assert: any token closes the template
MatchEndUnchecked ==
  /\ At("match_end", "got")
  /\ Return(None)
  /\ UNCHANGED <<text, tokens, pos, pushed, ref>>

\* line 152: assert token.name == 'END'
MatchEnd ==
  /\ At("match_end", "got")
  /\ IF Top.token.name = "END" THEN Return(None)
     ELSE Raise("AssertionError")
  /\ UNCHANGED <<text, tokens, pos, pushed, ref>>

(***************************************************************************)
(* TemplateReference.from_string                                           *)
(***************************************************************************)
IsArg(p) == p.k = "Arg"

IsKwarg(p) == p.k = "Kwarg"

\* line 24: [p.value for p in parameters if isinstance(p, Arg)]
ArgValues(parameters) ==
  LET sel == SelectSeq(parameters, IsArg)
  IN  [i \in 1..Len(sel) |-> sel[i].value]

\* line 26: [(p.key, p.value) for p in parameters if isinstance(p, Kwarg)]
KwargItems(parameters) ==
  LET sel == SelectSeq(parameters, IsKwarg)
  IN  [i \in 1..Len(sel) |-> <<sel[i].key, sel[i].value>>]

\* d[key] = value
DictSet(d, key, value) ==
  [x \in DOMAIN d \cup {key} |-> IF x = key THEN value ELSE d[x]]

\* dict(items): the items are inserted in order
RECURSIVE DictOf(_)
DictOf(items) ==
  IF items = <<>> THEN <<>>
  ELSE LET last == items[Len(items)]
       IN  DictSet(DictOf(SubSeq(items, 1, Len(items) - 1)), last[1], last[2])

\* a dict is not hashable, so it cannot be a key
Unhashable(items) == \E i \in 1..Len(items) : items[i][1].k = "dict"

TemplateReference(name, args, kwargs) ==
  [k |-> "TemplateReference", name |-> name, args |-> args, kwargs |-> kwargs]

\* from_string reading the node with defaults instead of subscripts
FromStringDefaulting ==
  /\ status = "parsed"
  /\ status' = "done"
  /\ ref' = IF HasKey(ret, "parameters")
              THEN TemplateReference(ret.d.name, ArgValues(ret.d.parameters),
                                     DictOf(KwargItems(ret.d.parameters)))
              ELSE TemplateReference(None, <<>>, <<>>)
  /\ UNCHANGED <<text, tokens, pos, pushed, stack, ret>>

\* lines 24-28, on the node parse() returned
FromString ==
  /\ status = "parsed"
  /\ IF ~HasKey(ret, "parameters")
       THEN status' = "KeyError" /\ ref' = None
     ELSE IF Unhashable(KwargItems(ret.d.parameters))
       THEN status' = "TypeError" /\ ref' = None
     ELSE /\ status' = "done"
          /\ ref' = TemplateReference(ret.d.name,
                                      ArgValues(ret.d.parameters),
                                      DictOf(KwargItems(ret.d.parameters)))
  /\ UNCHANGED <<text, tokens, pos, pushed, stack, ret>>

Next ==
  \/ Parse
  \/ Advance
  \/ MatchTemplateNotBegin
  \/ MatchTemplateBegin
  \/ MatchTemplateNestedName
  \/ MatchTemplateParameters
  \/ MatchTemplateEnd
  \/ MatchTemplateReturn
  \/ MatchAtom
  \/ MatchParametersParameter
  \/ MatchParametersAtom
  \/ MatchParametersBegin
  \/ MatchParametersValue
  \/ MatchParametersEqual
  \/ MatchParametersBreak
  \/ MatchEnd
  \/ FromString

Spec == Init /\ [][Next]_vars

\* the texts of the runs checked to their end: as Inputs, the templates with
\* one segment less
LiveInputs ==
  RawTexts \cup FreeForm
    \cup {LB \o <<"a">> \o r \o RB : r \in Runs(Segments, MaxParams - 1)}

InitLive ==
  /\ text \in LiveInputs
  /\ tokens = <<>>
  /\ pos = 0
  /\ pushed = None
  /\ stack = <<>>
  /\ ret = None
  /\ status = "start"
  /\ ref = None

\* a call that has started and can take a step takes it: the interpreter
\* runs the code on; nothing obliges a caller to call parse
SpecLive ==
  InitLive /\ [][Next]_vars /\ WF_vars(status # "start" /\ Next)

(***************************************************************************)
(* parse called twice on one text: first on the tokens up to the END that  *)
(* matches the first BEGIN, then, with the first node kept in ref, on all  *)
(* the tokens.                                                             *)
(***************************************************************************)
InitTrailing ==
  /\ text \in TrailingInputs
  /\ tokens = <<>>
  /\ pos = 0
  /\ pushed = None
  /\ stack = <<>>
  /\ ret = None
  /\ status = "start"
  /\ ref = None

\* parse on the closed prefix of the tokens of text
ParsePrefix ==
  /\ status = "start"
  /\ tokens' = SubSeq(LexTokens(text), 1,
                      CHOOSE j \in Closings(LexTokens(text)) : TRUE)
  /\ pos' = 0
  /\ pushed' = None
  /\ stack' = <<Frame("match_template")>>
  /\ status' = "running"
  /\ UNCHANGED <<text, ret, ref>>

\* the first call has returned: keep its node, parse all the tokens of text
ParseWhole ==
  /\ status = "parsed"
  /\ ref = None
  /\ ref' = ret
  /\ tokens' = LexTokens(text)
  /\ pos' = 0
  /\ pushed' = None
  /\ stack' = <<Frame("match_template")>>
  /\ status' = "running"
  /\ UNCHANGED <<text, ret>>

NextTrailing ==
  \/ ParsePrefix
  \/ ParseWhole
  \/ Advance
  \/ MatchTemplateNotBegin
  \/ MatchTemplateBegin
  \/ MatchTemplateNestedName
  \/ MatchTemplateParameters
  \/ MatchTemplateEnd
  \/ MatchTemplateReturn
  \/ MatchAtom
  \/ MatchParametersParameter
  \/ MatchParametersAtom
  \/ MatchParametersBegin
  \/ MatchParametersValue
  \/ MatchParametersEqual
  \/ MatchParametersBreak
  \/ MatchEnd

SpecTrailing == InitTrailing /\ [][NextTrailing]_vars

(***************************************************************************)
(* Vocabulary of the properties.                                           *)
(***************************************************************************)
\* parse() has returned its node (in ret)
Returned == status \in {"parsed", "done", "KeyError", "TypeError"}

\* the tokens taken from the iterator so far
Taken == SubSeq(tokens, 1, pos)

FirstIsBegin == tokens # <<>> /\ tokens[1].name = "BEGIN"

\* the tokens not yet delivered for good: the pending one, then the rest
Remaining ==
  (IF pushed = None THEN <<>> ELSE <<pushed>>)
    \o SubSeq(tokens, pos + 1, Len(tokens))

(***************************************************************************)
(* C1  Unterminated input fails.  Whenever match_end holds a token that is *)
(* not END (end-of-stream included) the parse ends there with the          *)
(* assertion failure and no node; a failure of that kind has no other      *)
(* origin; and a node that parse does return never stands for a template   *)
(* left open: the tokens taken end with the END of the first BEGIN and     *)
(* hold as many END as BEGIN.                                              *)
(***************************************************************************)
C1_Closed ==
  /\ (status = "AssertionError" =>
        /\ stack # <<>>
        /\ Top.fn = "match_end"
        /\ Top.token.name # "END"
        /\ ref = None)
  /\ (Returned /\ FirstIsBegin =>
        /\ ret # EmptyDict
        /\ pos >= 1
        /\ tokens[pos].name = "END"
        /\ Count(Taken, "BEGIN") = Count(Taken, "END"))

C1_FailsInMatchEnd ==
  [][(At("match_end", "got") /\ Top.token.name # "END") =>
       (status' = "AssertionError" /\ stack' = stack /\ ref' = None)]_vars

C1_UnterminatedFails == []C1_Closed /\ C1_FailsInMatchEnd

\* {{a|a : the template is open at end-of-stream and the parse has failed
C1_Witness ==
  /\ status = "AssertionError"
  /\ text = <<"{", "{", "a", "|", "a">>
  /\ Top.token = EndOfStream

(***************************************************************************)
(* C2  No leading template.  When the first token is not BEGIN (or there   *)
(* is no token) match_template leaves the stream as it found it, with the  *)
(* token it read pending again, and returns the empty node; from_string    *)
(* then ends in an error and builds no reference.                          *)
(***************************************************************************)
C2_NoLeadingTemplate ==
  (status # "start" /\ ~FirstIsBegin) =>
     /\ status \in {"running", "parsed", "KeyError"}
     /\ ref = None
     /\ (status = "running" =>
           /\ Len(stack) = 1
           /\ Top.fn = "match_template"
           /\ Top.pc \in {"advance", "got"})
     /\ (status \in {"parsed", "KeyError"} =>
           /\ stack = <<>>
           /\ ret = EmptyDict
           /\ Remaining = (IF tokens = <<>> THEN <<EndOfStream>> ELSE tokens))

\* a text that starts with an atom: from_string has failed on the empty node
C2_Witness ==
  /\ status = "KeyError"
  /\ tokens # <<>>
  /\ tokens[1].name = "ATOM"
  /\ pushed = tokens[1]

(***************************************************************************)
(* C3  Reference builder.  For every node parse returns for a template,    *)
(* from_string returns a reference whose args are the values of the        *)
(* positional entries in their order and whose kwargs maps every key of a  *)
(* keyword entry to the value of the last keyword entry with that key.     *)
(***************************************************************************)
ArgIndices(ps) == {i \in 1..Len(ps) : IsArg(ps[i])}

KwargIndices(ps) == {i \in 1..Len(ps) : IsKwarg(ps[i])}

\* the reference r holds the parameters ps as the claim says
Flattened(r, ps) ==
  /\ Len(r.args) = Cardinality(ArgIndices(ps))
  /\ \A i \in ArgIndices(ps) :
       r.args[Cardinality({j \in ArgIndices(ps) : j <= i})] = ps[i].value
  /\ DOMAIN r.kwargs = {ps[i].key : i \in KwargIndices(ps)}
  /\ \A i \in KwargIndices(ps) :
       (\A j \in KwargIndices(ps) : j > i => ps[j].key # ps[i].key)
          => r.kwargs[ps[i].key] = ps[i].value

\* from_string is over, on a node that is not the empty one
Built == status \in {"done", "KeyError", "TypeError"} /\ ret # EmptyDict

C3_ReferenceBuilder ==
  Built =>
    /\ status = "done"
    /\ ref.name = ret.d.name
    /\ Flattened(ref, ret.d.parameters)

\* the same, apart from the nodes in which a keyword entry's key is a nested
\* template (C6): these alone stop from_string
C3_ExceptNestedKeys ==
  (Built /\ \A i \in KwargIndices(ret.d.parameters) :
              IsAtomValue(ret.d.parameters[i].key)) =>
    /\ status = "done"
    /\ ref.name = ret.d.name
    /\ Flattened(ref, ret.d.parameters)

(***************************************************************************)
(* C4  Parameter order and duplicates.  Reading a returned node back (its  *)
(* name, then entry by entry the key and the value, a nested node between  *)
(* its BEGIN and END) gives exactly the BEGIN, END and ATOM tokens taken   *)
(* from the stream, in their order: the parser reorders, merges and drops  *)
(* no entry, entries with the same key included.                           *)
(***************************************************************************)
RECURSIVE ReadBack(_), ReadBackEntries(_)
ReadBack(v) ==
  IF v.k = "dict"
    THEN IF HasKey(v, "name") /\ HasKey(v, "parameters")
           THEN <<Token("BEGIN", StrV(LB))>> \o ReadBack(v.d.name)
                  \o ReadBackEntries(v.d.parameters)
                  \o <<Token("END", StrV(RB))>>
           ELSE <<>>
  ELSE IF v = None THEN <<>>
  ELSE <<Token("ATOM", v)>>

ReadBackEntries(ps) ==
  IF ps = <<>> THEN <<>>
  ELSE (IF IsArg(Head(ps)) THEN ReadBack(Head(ps).value)
        ELSE ReadBack(Head(ps).key) \o ReadBack(Head(ps).value))
         \o ReadBackEntries(Tail(ps))

IsValueToken(t) == t.name \in {"BEGIN", "END", "ATOM"}

C4_SourceOrder ==
  (Returned /\ FirstIsBegin) =>
     ReadBack(ret) = SelectSeq(Taken, IsValueToken)

\* two keyword entries with one key and different values, both in the
\* returned node
C4_Witness ==
  /\ Returned
  /\ HasKey(ret, "parameters")
  /\ \E i, j \in KwargIndices(ret.d.parameters) :
       /\ i < j
       /\ ret.d.parameters[i].key = ret.d.parameters[j].key
       /\ ret.d.parameters[i].value # ret.d.parameters[j].value

(***************************************************************************)
(* C5  Name well-formedness.  In every node of a returned tree the name is *)
(* an atom value or a nested node with a name and parameters; a BEGIN      *)
(* followed by neither ATOM nor BEGIN makes the parse fail.                *)
(***************************************************************************)
IsNode(v) == HasKey(v, "name") /\ HasKey(v, "parameters")

RECURSIVE WellNamed(_)
WellNamed(v) ==
  IF v.k # "dict" THEN TRUE
  ELSE /\ IsNode(v)
       /\ IsAtomValue(v.d.name) \/ IsNode(v.d.name)
       /\ WellNamed(v.d.name)
       /\ \A i \in 1..Len(v.d.parameters) :
            /\ WellNamed(v.d.parameters[i].value)
            /\ IsKwarg(v.d.parameters[i]) => WellNamed(v.d.parameters[i].key)

C5_NameWellFormed ==
  (Returned /\ FirstIsBegin) =>
     /\ WellNamed(ret)
     /\ Len(tokens) >= 2
     /\ tokens[2].name \in {"ATOM", "BEGIN"}

(***************************************************************************)
(* C6  Keyword keys are atoms.  In every node of a returned tree the key   *)
(* of every keyword entry is an atom value, never a nested node.           *)
(***************************************************************************)
RECURSIVE AtomKeys(_)
AtomKeys(v) ==
  IF ~(v.k = "dict" /\ IsNode(v)) THEN TRUE
  ELSE /\ AtomKeys(v.d.name)
       /\ \A i \in 1..Len(v.d.parameters) :
            /\ AtomKeys(v.d.parameters[i].value)
            /\ IsKwarg(v.d.parameters[i]) => IsAtomValue(v.d.parameters[i].key)

C6_KeysAreAtoms == Returned => AtomKeys(ret)

(***************************************************************************)
(* C7  Empty parameter.  Every PARAMETER token of the outer template that  *)
(* is directly followed by PARAMETER or by END has its entry in the        *)
(* returned node: a positional entry holding the no-value marker.          *)
(***************************************************************************)
\* nesting depth at token i: the BEGINs less the ENDs before it
Depth(i) ==
  Count(SubSeq(tokens, 1, i - 1), "BEGIN") - Count(SubSeq(tokens, 1, i - 1), "END")

EmptyParameters ==
  {i \in 1..(pos - 1) :
     /\ tokens[i].name = "PARAMETER"
     /\ tokens[i + 1].name \in {"PARAMETER", "END"}
     /\ Depth(i) = 1}

NoValueEntries(ps) == {i \in 1..Len(ps) : ps[i] = Arg(None)}

C7_EmptyParameterKept ==
  (Returned /\ FirstIsBegin) =>
     Cardinality(NoValueEntries(ret.d.parameters)) = Cardinality(EmptyParameters)

(***************************************************************************)
(* C8  Lexer coverage.  The tokens handed to the parser are those of the   *)
(* whole text: the matched spans, joined, are the text; or lexing fails.   *)
(***************************************************************************)
RECURSIVE Join(_)
Join(spans) == IF spans = <<>> THEN <<>> ELSE Head(spans) \o Join(Tail(spans))

C8_LexerCoverage ==
  status # "start" =>
     /\ tokens = scan(text).tokens
     /\ Join(scan(text).spans) = text \/ status = "LexError"

(***************************************************************************)
(* C9  Single-slot pushback.  Wherever a token is about to be pushed back  *)
(* the slot is empty, and a pending token is the one the stream delivered  *)
(* last; advance delivers the pending token if there is one, else the next *)
(* token of the sequence, else the synthetic end-of-stream token; nothing  *)
(* else moves the stream.  So the tokens arrive in source order, none lost *)
(* and none twice.                                                         *)
(***************************************************************************)
\* the activation on top holds a token it is going to push back
PushPoint ==
  /\ Running
  /\ Top.pc = "got"
  /\ \/ Top.fn = "match_template" /\ Top.token.name # "BEGIN"
     \/ Top.fn = "match_atom" /\ Top.token.name # "ATOM"
     \/ Top.fn = "match_parameters"
          /\ Top.token.name \notin {"PARAMETER", "ATOM", "EQUAL"}

\* what the stream can have delivered last
LastDelivered ==
  (IF pos >= 1 THEN {tokens[pos]} ELSE {})
    \cup (IF pos = Len(tokens) THEN {EndOfStream} ELSE {})

C9_Slot ==
  /\ PushPoint => pushed = None
  /\ pushed # None => pushed \in LastDelivered
  /\ (Running /\ Top.pc = "got") => Top.token \in LastDelivered

C9_Advance ==
  [][(Running /\ Top.pc = "advance") =>
       /\ pushed' = None
       /\ Len(stack') = Len(stack)
       /\ IF pushed # None
            THEN stack'[Len(stack)].token = pushed /\ pos' = pos
          ELSE IF pos < Len(tokens)
            THEN stack'[Len(stack)].token = tokens[pos + 1] /\ pos' = pos + 1
          ELSE stack'[Len(stack)].token = EndOfStream /\ pos' = pos]_vars

C9_Push ==
  [][/\ pos' # pos => (Running /\ Top.pc = "advance")
     /\ (pushed' # None /\ pushed' # pushed) =>
           (PushPoint /\ pushed = None /\ pushed' = Top.token)]_vars

C9_SingleSlotPushback == []C9_Slot /\ C9_Advance /\ C9_Push

\* inside a nested template match_parameters has pushed the end-of-stream
\* token back and match_end is about to be handed it
C9_Witness ==
  /\ At("match_end", "advance")
  /\ Len(stack) >= 4
  /\ pushed = EndOfStream

(***************************************************************************)
(* C10  Nested template as value.  In the reference from_string returns,   *)
(* the keyword value that is a nested template is itself a template        *)
(* reference (name, args, kwargs) of the nested template.                  *)
(***************************************************************************)
C10_NestedReference ==
  status = "done" =>
    \A i \in KwargIndices(ret.d.parameters) :
      LET entry == ret.d.parameters[i]
      IN  (/\ entry.value.k = "dict"
           /\ \A j \in KwargIndices(ret.d.parameters) :
                j > i => ret.d.parameters[j].key # entry.key)
            => /\ ref.kwargs[entry.key].k = "TemplateReference"
               /\ ref.kwargs[entry.key].name = entry.value.d.name
               /\ Flattened(ref.kwargs[entry.key], entry.value.d.parameters)

(***************************************************************************)
(* The tokens of the outer template, read without the parser: its          *)
(* PARAMETER tokens, its values (an ATOM, or the BEGIN of a nested         *)
(* template) after the name, the segment of a value (the PARAMETER before  *)
(* it) and the place of a value in its segment.                            *)
(***************************************************************************)
TopParameters ==
  {i \in 1..pos : tokens[i].name = "PARAMETER" /\ Depth(i) = 1}

TopValues ==
  {i \in 3..pos : tokens[i].name \in {"ATOM", "BEGIN"} /\ Depth(i) = 1}

SegmentOf(i) ==
  CHOOSE j \in TopParameters :
    j < i /\ \A k \in TopParameters : k < i => k <= j

RankInSegment(i) ==
  Cardinality({k \in TopValues : SegmentOf(k) = SegmentOf(i) /\ k <= i})

\* the values that arrive with the cursor at 0: the first, third, ... of a
\* segment
EntryStarts == {i \in TopValues : RankInSegment(i) % 2 = 1}

\* the e-th of them
NthStart(e) ==
  CHOOSE i \in EntryStarts : Cardinality({k \in EntryStarts : k <= i}) = e

\* the value that follows value i in its segment, if any
Partners(i) ==
  {k \in TopValues : SegmentOf(k) = SegmentOf(i)
                       /\ RankInSegment(k) = RankInSegment(i) + 1}

\* v is the value token i stands for
ValueOfToken(v, i) ==
  IF tokens[i].name = "ATOM" THEN v = tokens[i].value ELSE IsNode(v)

FirstSlot(entry) == IF IsArg(entry) THEN entry.value ELSE entry.key

ValuesInSegmentOf(i) == {k \in TopValues : SegmentOf(k) = SegmentOf(i)}

\* C12 as claimed: keyword entry <=> two values in its segment
C12_TwoValuesInSegment ==
  (Returned /\ FirstIsBegin) =>
     \A e \in 1..Len(ret.d.parameters) :
        /\ e <= Cardinality(EntryStarts)
        /\ IsKwarg(ret.d.parameters[e])
             <=> Cardinality(ValuesInSegmentOf(NthStart(e))) = 2

(***************************************************************************)
(* C12  Equal is a no-op, amended.  The step that handles an EQUAL leaves  *)
(* the cursor, the entries and the stream alone, and an entry is a keyword *)
(* entry exactly when two values were written into it: when the value     *)
(* that started it is followed by another value of its segment, with or    *)
(* without an EQUAL between them.                                          *)
(***************************************************************************)
C12_EqualStep ==
  [][(At("match_parameters", "got") /\ Top.token.name = "EQUAL") =>
       /\ Len(stack') = Len(stack)
       /\ stack'[Len(stack)].idx_cycle = Top.idx_cycle
       /\ stack'[Len(stack)].pairs = Top.pairs
       /\ stack'[Len(stack)].pc = "advance"
       /\ pushed' = pushed
       /\ pos' = pos
       /\ status' = status]_vars

C12_TwoValuesInEntry ==
  (Returned /\ FirstIsBegin) =>
     \A e \in 1..Len(ret.d.parameters) :
        /\ e <= Cardinality(EntryStarts)
        /\ IsKwarg(ret.d.parameters[e]) <=> Partners(NthStart(e)) # {}

\* C12 amended: the EQUAL step changes nothing; keyword entry <=> a second
\* value was written into the entry
C12_EqualIsNoOp == []C12_TwoValuesInEntry /\ C12_EqualStep

\* {{a|a=|a{{a}}}} : a key with an EQUAL and no value is positional, two
\* values with no EQUAL between them are a keyword entry
C12_Witness ==
  /\ Returned
  /\ text = LB \o <<"a", "|", "a", "=", "|", "a">> \o LB \o <<"a">> \o RB \o RB
  /\ ret.d.parameters =
       <<Arg(StrV(<<"a">>)),
         Kwarg(StrV(<<"a">>),
               Dict([name |-> StrV(<<"a">>), parameters |-> <<>>]))>>

(***************************************************************************)
(* C13  Only typed failures: parse returns a node or fails in match_end    *)
(* with the expected-END failure, and match_parameters reads idx_cycle     *)
(* only after a PARAMETER token of the same template has bound it.         *)
(***************************************************************************)
ParseFailures == {"AssertionError", "UnboundLocalError"}

CursorRead ==
  /\ At("match_parameters", "got")
  /\ Top.token.name \in {"ATOM", "BEGIN"}

\* C13: the only failure of parse is match_end's, and every read of
\* idx_cycle finds it bound
C13_OnlyTypedFailures ==
  /\ status \in ParseFailures => status = "AssertionError"
  /\ CursorRead => Top.idx_cycle # Unbound

(***************************************************************************)
(* C14  Balanced consumption.  On every successful parse the tokens        *)
(* consumed hold as many BEGIN as END and the returned tree has one node   *)
(* (the empty node apart) per BEGIN; the tokens from a nested BEGIN to its *)
(* END make up the nested node and nothing of the parent, whose entries    *)
(* hold one slot per value token of its own level; and while a nested      *)
(* template is being parsed the pairs and idx_cycle of every frame below   *)
(* stay as they are.                                                       *)
(***************************************************************************)
RECURSIVE NodeCount(_)
RECURSIVE EntriesNodeCount(_)
NodeCount(v) ==
  IF v.k = "dict" /\ IsNode(v)
    THEN 1 + NodeCount(v.d.name) + EntriesNodeCount(v.d.parameters)
  ELSE 0

EntriesNodeCount(ps) ==
  IF ps = <<>> THEN 0
  ELSE (IF IsArg(Head(ps)) THEN NodeCount(Head(ps).value)
        ELSE NodeCount(Head(ps).key) + NodeCount(Head(ps).value))
         + EntriesNodeCount(Tail(ps))

\* the END that closes the BEGIN at i
MatchingEnd(i) ==
  CHOOSE j \in (i + 1)..pos :
    /\ tokens[j].name = "END"
    /\ Depth(j) = Depth(i) + 1
    /\ \A k \in (i + 1)..(j - 1) :
         ~(tokens[k].name = "END" /\ Depth(k) = Depth(i) + 1)

\* v is the node of the tokens from the BEGIN at i to its END, and of these only
OwnsSpan(v, i) ==
  tokens[i].name = "BEGIN" =>
    ReadBack(v) = SelectSeq(SubSeq(tokens, i, MatchingEnd(i)), IsValueToken)

SlotCount(ps) == Len(ps) + Cardinality(KwargIndices(ps))

C14_Balanced ==
  (Returned /\ FirstIsBegin) =>
     /\ pushed = None
     /\ Count(Taken, "BEGIN") = Count(Taken, "END")
     /\ NodeCount(ret) = Count(Taken, "BEGIN")
     /\ SlotCount(ret.d.parameters) = Cardinality(TopValues)
     /\ \A e \in 1..Len(ret.d.parameters) :
          /\ e <= Cardinality(EntryStarts)
          /\ OwnsSpan(FirstSlot(ret.d.parameters[e]), NthStart(e))
          /\ \A k \in Partners(NthStart(e)) :
               OwnsSpan(ret.d.parameters[e].value, k)

C14_ParentUntouched ==
  [][\A k \in 1..(Len(stack) - 1) :
       k <= Len(stack') =>
         /\ stack'[k].pairs = stack[k].pairs
         /\ stack'[k].idx_cycle = stack[k].idx_cycle]_vars

\* C14: balanced BEGIN/END, one node per BEGIN, nested spans owned by the
\* nested node, frames below the top untouched
C14_BalancedConsumption == []C14_Balanced /\ C14_ParentUntouched

\* {{a|a={{a|1}}|1}} : the PARAMETER inside the nested template has not
\* reset the parent's cursor, and the parent's second entry follows
C14_Witness ==
  /\ Returned
  /\ text = LB \o <<"a", "|", "a", "=">> \o LB \o <<"a", "|", "1">> \o RB
              \o <<"|", "1">> \o RB
  /\ ret.d.parameters =
       <<Kwarg(StrV(<<"a">>),
               Dict([name |-> StrV(<<"a">>), parameters |-> <<Arg(IntV(1))>>])),
         Arg(IntV(1))>>

(***************************************************************************)
(* C15  Trailing tokens are ignored.  Let parse have returned a node for   *)
(* tokens T that end with the END matching their first BEGIN.  Then parse  *)
(* on T followed by any tokens R never fails and never takes a token of R  *)
(* from the iterator, and it returns the same node with nothing pending in *)
(* the pushback slot.                                                      *)
(***************************************************************************)
\* the second call is under way or over; ref holds the node of the first
SecondCall == ref # None

TLen == CHOOSE j \in Closings(tokens) : TRUE

C15_TrailingIgnored ==
  SecondCall =>
     /\ status \in {"running", "parsed"}
     /\ pos <= TLen
     /\ status = "parsed" =>
          /\ ret = ref
          /\ pos = TLen
          /\ pushed = None
          /\ Remaining = SubSeq(tokens, TLen + 1, Len(tokens))

\* a second template follows the first: it is left in the stream
C15_Witness ==
  /\ SecondCall
  /\ status = "parsed"
  /\ ret = ref
  /\ ret.d.parameters # <<>>
  /\ pos < Len(tokens)
  /\ tokens[pos + 1].name = "BEGIN"

(***************************************************************************)
(* C16  Termination.  Every call of parse that has started ends, with a    *)
(* node or with a failure.                                                 *)
(* Each round of the match_parameters loop that goes on has taken a token  *)
(* that stays consumed: nothing is pending when the next round starts, and *)
(* a nested template has been read up to its END.  A match_template that   *)
(* finds no BEGIN returns the empty node in that step, calling nothing.    *)
(* No more tokens are taken from the list than it holds.                   *)
(***************************************************************************)
Finished == status \notin {"start", "running"}

C16_Bounded ==
  /\ pos <= Len(tokens)
  /\ At("match_parameters", "value") =>
       /\ pushed = None
       /\ pos >= 2
       /\ tokens[pos].name = "END"

\* a round of the loop ends and the next one is about to start
C16_RoundConsumes ==
  [][(/\ Running
      /\ Top.fn = "match_parameters"
      /\ Top.pc \in {"got", "value"}
      /\ status' = "running"
      /\ Len(stack') = Len(stack)
      /\ stack'[Len(stack)].pc = "advance")
       => /\ Top.token.name \in {"PARAMETER", "ATOM", "BEGIN", "EQUAL"}
          /\ Top.token \in {tokens[i] : i \in 1..pos}
          /\ pushed' = None
          /\ pos' = pos]_vars

C16_NotBeginReturns ==
  [][(At("match_template", "got") /\ Top.token.name # "BEGIN")
       => /\ stack' = Pop
          /\ ret' = EmptyDict
          /\ pos' = pos]_vars

\* C16: every call ends; rounds consume; no BEGIN, no recursion; pos within
\* the token list
C16_Termination ==
  /\ (status = "running") ~> Finished
  /\ []C16_Bounded
  /\ C16_RoundConsumes
  /\ C16_NotBeginReturns

\* {{|1}} : the nested match_template for the name found no BEGIN, the loop
\* made two rounds, and parse has returned
C16_Witness ==
  /\ status = "parsed"
  /\ text = LB \o <<"|", "1">> \o RB
  /\ ret = Dict([name |-> EmptyDict, parameters |-> <<Arg(IntV(1))>>])
  /\ pos = Len(tokens)

====
